---- MODULE Spec2Model ----
(***************************************************************************)
(* The session-scoped event pipeline of src/app.py: the process-wide       *)
(* registry message_queues, the POST /chat handler with its background     *)
(* thread (route_request, generate_response, the final put) and the        *)
(* GET /stream/<session_id> generator.                                     *)
(*                                                                         *)
(* Every access to message_queues is one atomic step (one dictionary       *)
(* operation under the interpreter lock); a membership test and the        *)
(* subscript that follows it are two steps, so that another thread may run *)
(* between them, as it may in the program.                                 *)
(*                                                                         *)
(* Beside it: the tool server of src/mcp_server_http.py answering one      *)
(* POST /tools/call made through the adapter (ServerSpec), and the         *)
(* health-check loop the command-line clients run at startup (ClientSpec). *)
(***************************************************************************)
EXTENDS Integers, Sequences, FiniteSets, TLC

\* ------------------------------------------------------------------ bounds
MaxRuns == 2        \* POST /chat requests of the concurrent specification
MaxSubs == 1        \* GET /stream requests of the concurrent specification
MaxSessions == 2    \* distinct session ids
MaxKeepalive == 1   \* keepalive frames counted per subscriber
MaxServed == 1      \* POST /tools/call requests of the tool server specification

\* the request records of the state: enough for every specification below
\* (the single-run one has 1 and 1, the two-subscriber one 1 and 2)
Largest(S) == CHOOSE n \in S : \A m \in S : m <= n
RunSlots == Largest({MaxRuns, 1})
SubSlots == Largest({MaxSubs, 2})

Sessions == 1..MaxSessions

\* ----------------------------------------------------------- plain values
None == [none |-> TRUE]          \* Python's None
NoQueue == 0                     \* "session_id not in message_queues"
Messages == {"", "hello"}        \* data.get('message', '')

\* --------------------------------------------------- tool server (HTTP)
\* arguments as the oracle may give them: null, {}, a mapping without the
\* required key, a mapping with it
ParamShapes == {"null", "empty", "nokey", "ok"}

\* bool(params): None and {} are falsy
Truthy(params) == params \in {"nokey", "ok"}

\* arguments.get("city") / arguments.get("query") is a non-empty string
HasRequired(params) == params = "ok"

\* what the upstream weather / search service did; "no_key": the server runs
\* without SERPER_API_KEY (the weather service needs no key)
Upstreams == {"up_ok", "up_status", "up_exc", "no_key"}

get_weather(up) ==
  CASE up \in {"up_ok", "no_key"} -> [success |-> TRUE, data |-> "weather_info"]
    [] up = "up_status" -> [success |-> FALSE, error |-> "Could not fetch weather"]
    [] OTHER            -> [success |-> FALSE, error |-> "Weather API error"]

web_search(up) ==
  CASE up = "no_key"    -> [success |-> FALSE, error |-> "SERPER_API_KEY not configured"]
    [] up = "up_ok"     -> [success |-> TRUE, data |-> "search_results"]
    [] up = "up_status" -> [success |-> FALSE, error |-> "Serper API error"]
    [] OTHER            -> [success |-> FALSE, error |-> "Web search error"]

\* a body response.json() cannot parse
NotJson == [notjson |-> TRUE]

\* a variant that runs the tool function without looking at the arguments
call_tool_NoValidation(name, params, up) ==
  IF name = "get_weather"
  THEN [status |-> 200, body |-> get_weather(up), ran |-> TRUE]
  ELSE IF name = "web_search"
  THEN [status |-> 200, body |-> web_search(up), ran |-> TRUE]
  ELSE [status |-> 404, body |-> [success |-> FALSE, error |-> "Unknown tool"],
        ran |-> FALSE]

\* POST /tools/call: the status code and the body of the reply, and whether
\* the tool function was executed (ran). With "arguments": null the
\* `arguments.get` of a tool branch raises AttributeError and the framework
\* answers 500 with an error page
call_tool(name, params, up) ==
  IF name \in {"get_weather", "web_search"} /\ params = "null"
  THEN [status |-> 500, body |-> NotJson, ran |-> FALSE]
  ELSE IF name = "get_weather"
  THEN IF ~HasRequired(params)
       THEN [status |-> 400, body |-> [success |-> FALSE, error |-> "Missing 'city' parameter"],
             ran |-> FALSE]
       ELSE [status |-> 200, body |-> get_weather(up), ran |-> TRUE]
  ELSE IF name = "web_search"
  THEN IF ~HasRequired(params)
       THEN [status |-> 400, body |-> [success |-> FALSE, error |-> "Missing 'query' parameter"],
             ran |-> FALSE]
       ELSE [status |-> 200, body |-> web_search(up), ran |-> TRUE]
  ELSE [status |-> 404, body |-> [success |-> FALSE, error |-> "Unknown tool"],
        ran |-> FALSE]

\* ------------------------------------------------ tool invocation adapter
\* what the network did with the request: delivered it, or requests.post
\* raised (refused connection, timeout), or a proxy answered 500, or the
\* reply has status 200 and a body that is not JSON
Nets == {"net_ok", "net_exc", "net_500", "net_badbody"}

HttpReply(net, name, params, up) ==
  CASE net = "net_ok"  -> call_tool(name, params, up)
    [] net = "net_500" -> [status |-> 500, body |-> None]
    [] net = "net_badbody" -> [status |-> 200, body |-> NotJson]
    [] OTHER           -> [status |-> 0, body |-> None]   \* no reply: an exception

HttpError(status) ==
  CASE status = 400 -> "HTTP 400"
    [] status = 404 -> "HTTP 404"
    [] OTHER        -> "HTTP 500"

\* a variant that returns the reply's body whatever its status
call_mcp_tool_AnyStatus(net, name, params, up) ==
  LET reply == HttpReply(net, name, params, up)
  IN  IF net = "net_exc" \/ reply.body = NotJson
      THEN [success |-> FALSE, error |-> "Request failed"]
      ELSE reply.body

\* lines 36-47: requests.post raising, or response.json() raising on a 200
\* reply, is caught at line 46
call_mcp_tool(net, name, params, up) ==
  LET reply == HttpReply(net, name, params, up)
  IN  IF net = "net_exc"
      THEN [success |-> FALSE, error |-> "Request failed"]
      ELSE IF reply.status = 200
           THEN IF reply.body = NotJson
                THEN [success |-> FALSE, error |-> "Request failed"]
                ELSE reply.body
           ELSE [success |-> FALSE, error |-> HttpError(reply.status)]

\* ------------------------------------------------------------- the oracle
Tools == {"get_weather", "web_search", "none"}

\* the routing decision parsed from the oracle's reply, or "raise" when the
\* call, json.loads or a .get on the parsed value raises
Decisions ==
  {[raise |-> TRUE, tool |-> "unset", params |-> "null"]} \cup
  [raise : {FALSE}, tool : Tools, params : ParamShapes]

\* the reduced environments of the concurrent specification
SomeDecisions ==
  {[raise |-> TRUE, tool |-> "unset", params |-> "null"],
   [raise |-> FALSE, tool |-> "get_weather", params |-> "ok"]}
SomeNets == {"net_500"}
SomeUpstreams == {"up_ok"}
SomeComposers == {"answer"}
Composers == {"answer", "raise"}

\* a variant that does not test the tool's name
ToolSelected_AnyName(tool, params) == Truthy(params)

\* `tool == "get_weather" and params` / `tool == "web_search" and params`
ToolSelected(tool, params) ==
  tool \in {"get_weather", "web_search"} /\ Truthy(params)

ToolNote(tool) == IF tool = "get_weather" THEN "weather_note" ELSE "search_note"

\* ------------------------------------------------------ generate_response
\* tool_result.get("success") is falsy
Failed(tr) == tr /= None /\ ~(("success" \in DOMAIN tr) /\ tr.success)

\* whether the response composer is called for this tool result
CallsComposer(tr) == ~Failed(tr)

\* a variant whose apology does not carry the tool result's error
ResponseText_NoError(tr, composer) ==
  IF Failed(tr)
  THEN "I encountered an error: " \o "Unknown error"
  ELSE IF composer = "raise"
       THEN "Error generating response: composer"
       ELSE IF tr = None THEN "direct answer" ELSE "answer from " \o tr.data

\* the "result" generate_response returns
ResponseText(tr, composer) ==
  IF Failed(tr)
  THEN "I encountered an error: " \o
       (IF "error" \in DOMAIN tr THEN tr.error ELSE "Unknown error")
  ELSE IF composer = "raise"
       THEN "Error generating response: composer"
       ELSE IF tr = None THEN "direct answer" ELSE "answer from " \o tr.data

\* ------------------------------------------------------------------ state
VARIABLES
  message_queues,  \* session id -> registered queue object, or NoQueue
  queues,          \* queue object -> the events waiting in it
  hist,            \* queue object -> every event ever put into it (history)
  stale,           \* session id -> the events put under it before the latest
                   \* delete of its registry entry (history)
  run,             \* POST /chat request -> its handler / background thread
  sub,             \* GET /stream request -> its generator
  served,          \* the POST /tools/call requests the tool server has
                   \* answered, each with its reply (history)
  cli              \* a command-line client process in its startup

vars == <<message_queues, queues, hist, stale, run, sub, served, cli>>

\* an event as put into a queue; "run" records which request's thread put
\* it (history only: the program's events do not carry it)
Event(type, info, r) == [type |-> type, info |-> info, run |-> r]

Registered(sid) == message_queues[sid] /= NoQueue

\* queue.Queue(): a new, empty queue object
NewQueue == Len(queues) + 1

\* q.put(e)
Put(q, e) ==
  /\ queues' = [queues EXCEPT ![q] = Append(@, e)]
  /\ hist' = [hist EXCEPT ![q] = Append(@, e)]

\* tool "unset": no routing decision has been parsed; pushed, oracle_calls,
\* tool_calls and composer_calls are history: the events this thread has put,
\* in order, and the external calls it has made; net and up are history too:
\* what the network and the upstream service did with the tool call;
\* response is the reply of POST /chat to its client
IdleRun == [pc |-> "idle", sid |-> 1, msg |-> "", tool |-> "unset", params |-> "null",
            response |-> "none",
            tool_result |-> None, result |-> "", pushed |-> <<>>,
            oracle_calls |-> 0, tool_calls |-> 0, composer_calls |-> 0,
            net |-> "none", up |-> "none"]

\* relayed, keepalives and seen_stale are history: the event frames and the
\* keepalive frames written to the client, and stale[sid] as it was when the
\* request arrived
IdleSub == [pc |-> "idle", sid |-> 1, q |-> NoQueue, message |-> None,
            relayed |-> <<>>, keepalives |-> 0, seen_stale |-> {}]

\* a client process not yet started; probes is history: the outcomes of its
\* health probes, in order
IdleClient == [pc |-> "idle", kind |-> "none", probes |-> <<>>]

\* session ids are opaque keys: a request uses an id already in use or the
\* lowest unused one
UsedSessions ==
  {run[r].sid : r \in {x \in DOMAIN run : run[x].pc /= "idle"}} \cup
  {sub[u].sid : u \in {x \in DOMAIN sub : sub[x].pc /= "idle"}}

NextSession(sid) == \A s \in 1..(sid - 1) : s \in UsedSessions

Init ==
  /\ message_queues = [s \in Sessions |-> NoQueue]
  /\ queues = <<>>
  /\ hist = <<>>
  /\ stale = [s \in Sessions |-> {}]
  /\ run = [r \in 1..RunSlots |-> IdleRun]
  /\ sub = [u \in 1..SubSlots |-> IdleSub]
  /\ served = <<>>
  /\ cli = IdleClient

\* --------------------------------------------------------------- POST /chat
\* a variant that accepts every message
ValidMessage_Any(msg) == TRUE

\* `if not user_message`
ValidMessage(msg) == msg /= ""

\* `message_queues[session_id] = queue.Queue()`: the entry is assigned
\* whether or not the key is already present
ChatRegister(mq, sid, new) == [mq EXCEPT ![sid] = new]

\* a variant that joins the thread it started: no reply yet when the thread
\* starts
ChatResponse_Joins(valid) == IF valid THEN "none" ELSE "error_400"

\* the reply chat() returns: line 242, or line 262 right after thread.start()
ChatResponse(valid) == IF valid THEN "processing" ELSE "error_400"

\* chat(): the validation, and for a valid message the registration of a
\* queue, the start of the background thread and the acknowledgement
Chat(r, sid, msg) ==
  /\ run[r].pc = "idle"
  /\ IF r = 1 THEN TRUE ELSE run[r - 1].pc /= "idle"
  /\ NextSession(sid)
  /\ IF ~ValidMessage(msg)
     THEN /\ run' = [run EXCEPT ![r].pc = "rejected", ![r].sid = sid, ![r].msg = msg,
                                 ![r].response = ChatResponse(FALSE)]
          /\ UNCHANGED <<message_queues, queues, hist>>
     ELSE /\ message_queues' = ChatRegister(message_queues, sid, NewQueue)
          /\ queues' = Append(queues, <<>>)
          /\ hist' = Append(hist, <<>>)
          /\ run' = [run EXCEPT ![r].pc = "route_status_check", ![r].sid = sid,
                                 ![r].msg = msg,
                                 ![r].response = ChatResponse(TRUE)]
  /\ UNCHANGED <<stale, sub, served, cli>>

\* ------------------------------------------------- a guarded put, in two steps
\* `if session_id in message_queues:` -- the membership test
CheckStep(r, at, present, absent) ==
  /\ run[r].pc = at
  /\ run' = [run EXCEPT ![r].pc =
               IF Registered(run[r].sid) THEN present ELSE absent]
  /\ UNCHANGED <<message_queues, queues, hist, stale, sub, served, cli>>

\* `message_queues[session_id].put(e)` -- the subscript raises KeyError when
\* the key is gone, and the thread continues at `missing`
PutStep(r, at, e, done, missing) ==
  /\ run[r].pc = at
  /\ IF Registered(run[r].sid)
     THEN /\ Put(message_queues[run[r].sid], e)
          /\ run' = [run EXCEPT ![r].pc = done, ![r].pushed = Append(@, e)]
     ELSE /\ run' = [run EXCEPT ![r].pc = missing]
          /\ UNCHANGED <<queues, hist>>
  /\ UNCHANGED <<message_queues, stale, sub, served, cli>>

\* ------------------------------------------------------------ route_request
\* a variant whose tool branches call the adapter without a status note
AfterRouting_NoNote(tool, params) ==
  IF ToolSelected(tool, params) THEN "route_call_tool" ELSE "respond_status_check"

\* where route_request goes after the routing event: one of the two tool
\* branches, or the return with tool_result None
AfterRouting(tool, params) ==
  IF ToolSelected(tool, params) THEN "route_note_check" ELSE "respond_status_check"

\* lines 64-68; the put is outside the try, so a KeyError ends the thread
RouteCheckStatus(r) ==
  CheckStep(r, "route_status_check", "route_status_put", "route_oracle")

RoutePutStatus(r) ==
  PutStep(r, "route_status_put", Event("status", "analyzing", r),
          "route_oracle", "crashed")

\* where route_request goes after the oracle call: to line 104, or, when the
\* call or the parse raised, through the handler at lines 132-133, which
\* returns tool_result None to the graph, whose next node is respond
AfterOracle(d) ==
  IF d.raise THEN "respond_status_check" ELSE "route_routing_check"

\* lines 87-101: the oracle call and the parse of its reply; on an exception
\* the handler at line 132 returns tool_result None
RouteOracle(r, decisions) ==
  /\ run[r].pc = "route_oracle"
  /\ \E d \in decisions :
       run' = [run EXCEPT
                 ![r].oracle_calls = @ + 1,
                 ![r].tool = d.tool,
                 ![r].params = d.params,
                 ![r].pc = AfterOracle(d)]
  /\ UNCHANGED <<message_queues, queues, hist, stale, sub, served, cli>>

\* lines 104-109, inside the try: a KeyError is caught at line 132
RouteCheckRouting(r) ==
  CheckStep(r, "route_routing_check", "route_routing_put",
            AfterRouting(run[r].tool, run[r].params))

RoutePutRouting(r) ==
  PutStep(r, "route_routing_put", Event("routing", run[r].tool, r),
          AfterRouting(run[r].tool, run[r].params), "respond_status_check")

\* lines 112-116 / 121-125, inside the try
RouteCheckNote(r) ==
  CheckStep(r, "route_note_check", "route_note_put", "route_call_tool")

RoutePutNote(r) ==
  PutStep(r, "route_note_put", Event("status", ToolNote(run[r].tool), r),
          "route_call_tool", "respond_status_check")

\* lines 117 / 126: call_mcp_tool
RouteCallTool(r, nets, ups) ==
  /\ run[r].pc = "route_call_tool"
  /\ \E net \in nets, up \in ups :
       run' = [run EXCEPT
                 ![r].tool_calls = @ + 1,
                 ![r].net = net,
                 ![r].up = up,
                 ![r].tool_result = call_mcp_tool(net, run[r].tool, run[r].params, up),
                 ![r].pc = "respond_status_check"]
  /\ UNCHANGED <<message_queues, queues, hist, stale, sub, served, cli>>

\* -------------------------------------------------------- generate_response
\* lines 140-144; the put is outside the try, so a KeyError ends the thread
RespondCheckStatus(r) ==
  CheckStep(r, "respond_status_check", "respond_status_put", "respond")

RespondPutStatus(r) ==
  PutStep(r, "respond_status_put", Event("status", "crafting", r),
          "respond", "crashed")

\* lines 146-197
Respond(r, composers) ==
  /\ run[r].pc = "respond"
  /\ \E c \in composers :
       run' = [run EXCEPT
                 ![r].composer_calls =
                     IF CallsComposer(run[r].tool_result) THEN @ + 1 ELSE @,
                 ![r].result = ResponseText(run[r].tool_result, c),
                 ![r].pc = "final_put"]
  /\ UNCHANGED <<message_queues, queues, hist, stale, sub, served, cli>>

\* ---------------------------------------------------------- process_message
\* lines 254-257: the subscript is not guarded by a membership test
PutFinal(r) ==
  PutStep(r, "final_put", Event("final", run[r].result, r), "done", "crashed")

\* ------------------------------------------------- GET /stream/<session_id>
\* a variant that hands out the newest event
QueueGet_Newest(events) == events[Len(events)]

\* `q.get(timeout=30)` on a non-empty queue: the oldest event
QueueGet(events) == Head(events)

\* a variant that never leaves the loop
EndsStream_Never(message) == FALSE

\* line 281: `if message.get("type") == "final"`
EndsStream(message) == message.type = "final"

\* every event put so far by the threads of the requests for sid
PushedUnder(sid) ==
  UNION {{run[r].pushed[i] : i \in DOMAIN run[r].pushed} :
           r \in {x \in DOMAIN run : run[x].pc /= "idle" /\ run[x].sid = sid}}

\* a variant that leaves the entry in place
Unregister_Keep(mq, sid) == mq

\* a variant that clears the whole registry
Unregister_All(mq, sid) == [s \in DOMAIN mq |-> NoQueue]

\* `del message_queues[session_id]`
Unregister(mq, sid) == [mq EXCEPT ![sid] = NoQueue]

\* the generator starts: line 271, the membership test
Stream(u, sid) ==
  /\ sub[u].pc = "idle"
  /\ IF u = 1 THEN TRUE ELSE sub[u - 1].pc /= "idle"
  /\ NextSession(sid)
  /\ sub' = [sub EXCEPT ![u].sid = sid,
                        ![u].seen_stale = stale[sid],
                        ![u].pc = IF Registered(sid) THEN "stream_read"
                                  ELSE "stream_create"]
  /\ UNCHANGED <<message_queues, queues, hist, stale, run, served, cli>>

\* line 272: `message_queues[session_id] = queue.Queue()`
StreamCreate(u) ==
  /\ sub[u].pc = "stream_create"
  /\ message_queues' = [message_queues EXCEPT ![sub[u].sid] = NewQueue]
  /\ queues' = Append(queues, <<>>)
  /\ hist' = Append(hist, <<>>)
  /\ sub' = [sub EXCEPT ![u].pc = "stream_read"]
  /\ UNCHANGED <<stale, run, served, cli>>

\* line 274: `q = message_queues[session_id]`; KeyError ends the generator
StreamRead(u) ==
  /\ sub[u].pc = "stream_read"
  /\ sub' = [sub EXCEPT
               ![u].q = message_queues[sub[u].sid],
               ![u].pc = IF Registered(sub[u].sid) THEN "stream_get" ELSE "failed"]
  /\ UNCHANGED <<message_queues, queues, hist, stale, run, served, cli>>

\* line 278: an event is available; the generator is then suspended at the
\* yield of line 279 while the server writes the frame
StreamGet(u) ==
  /\ sub[u].pc = "stream_get"
  /\ queues[sub[u].q] /= <<>>
  /\ sub' = [sub EXCEPT ![u].message = QueueGet(queues[sub[u].q]),
                        ![u].pc = "stream_yield"]
  /\ queues' = [queues EXCEPT ![sub[u].q] = Tail(@)]
  /\ UNCHANGED <<message_queues, hist, stale, run, served, cli>>

\* line 279 written to the client and the generator resumed; line 281
StreamYield(u) ==
  /\ sub[u].pc = "stream_yield"
  /\ sub' = [sub EXCEPT
               ![u].relayed = Append(@, sub[u].message),
               ![u].message = None,
               ![u].pc = IF EndsStream(sub[u].message) THEN "cleanup_check"
                         ELSE "stream_get"]
  /\ UNCHANGED <<message_queues, queues, hist, stale, run, served, cli>>

\* a variant whose generator returns after the keepalive frame
Keepalive_Ends(s) == [s EXCEPT !.keepalives = @ + 1, !.pc = "ended"]

\* lines 286-288, the generator after `except queue.Empty`: a keepalive
\* frame is written and control returns to the top of `while True`
Keepalive(s) == [s EXCEPT !.keepalives = @ + 1, !.pc = "stream_get"]

\* line 278 timing out on an empty queue, then lines 286-288
StreamKeepalive(u) ==
  /\ sub[u].pc = "stream_get"
  /\ queues[sub[u].q] = <<>>
  /\ sub[u].keepalives < MaxKeepalive
  /\ sub' = [sub EXCEPT ![u] = Keepalive(@)]
  /\ UNCHANGED <<message_queues, queues, hist, stale, run, served, cli>>

\* the client has gone: the write of a frame (an event at line 279, or a
\* keepalive at line 288) fails and the server closes the generator at that
\* yield; an event taken from the queue for that frame is not relayed
StreamDisconnect(u) ==
  /\ \/ sub[u].pc = "stream_yield"
     \/ sub[u].pc = "stream_get" /\ queues[sub[u].q] = <<>>
  /\ sub' = [sub EXCEPT ![u].message = None, ![u].pc = "closed"]
  /\ UNCHANGED <<message_queues, queues, hist, stale, run, served, cli>>

\* line 283: the membership test before the delete
StreamCleanupCheck(u) ==
  /\ sub[u].pc = "cleanup_check"
  /\ sub' = [sub EXCEPT ![u].pc = IF Registered(sub[u].sid) THEN "cleanup_del"
                                  ELSE "ended"]
  /\ UNCHANGED <<message_queues, queues, hist, stale, run, served, cli>>

\* line 284: the delete, by key; KeyError ends the generator
StreamCleanupDel(u) ==
  /\ sub[u].pc = "cleanup_del"
  /\ IF Registered(sub[u].sid)
     THEN /\ message_queues' = Unregister(message_queues, sub[u].sid)
          /\ stale' = [stale EXCEPT ![sub[u].sid] = PushedUnder(sub[u].sid)]
          /\ sub' = [sub EXCEPT ![u].pc = "ended"]
     ELSE /\ sub' = [sub EXCEPT ![u].pc = "failed"]
          /\ UNCHANGED <<message_queues, stale>>
  /\ UNCHANGED <<queues, hist, run, served, cli>>

\* ------------------------------------------------- the tool server, directly
\* the names a client can put in the "name" of a request
ServerNames == Tools \cup {"other"}

\* a client calls a tool through the adapter: the request, what the client
\* received (nothing the server sent when the network failed) and the
\* adapter's result
ToolsCall(name, params, up, net) ==
  /\ Len(served) < MaxServed
  /\ served' = Append(served,
                      [name |-> name, params |-> params, up |-> up, net |-> net,
                       reply |-> HttpReply(net, name, params, up),
                       result |-> call_mcp_tool(net, name, params, up)])
  /\ UNCHANGED <<message_queues, queues, hist, stale, run, sub, cli>>

ServerNext ==
  \E name \in ServerNames, params \in ParamShapes, up \in Upstreams, net \in Nets :
    ToolsCall(name, params, up, net)

ServerSpec == Init /\ [][ServerNext]_vars

\* ------------------------------------------- command-line clients: startup
ClientKinds == {"mcp_client_http_v2", "mcp_client", "test_client"}

\* the length of the probe loop: max_retries = 5, max_retries = 10, range(3)
max_retries(kind) ==
  CASE kind = "mcp_client_http_v2" -> 5
    [] kind = "mcp_client" -> 10
    [] OTHER -> 3

\* requests.get(.../health): status 200, another status, or a
\* RequestException
ProbeOutcomes == {"status_200", "status_other", "exception"}

\* where the script is after probe number i (from 0) had outcome o: a 200
\* breaks out of the loop; another status falls to the next iteration with
\* no handler; an exception sleeps and retries, and on the last iteration
\* exits with status 1. The loop of test_client.py has an `else` that exits
\* when the loop ends without a break; the other two fall out of the loop
\* into the rest of the script
AfterProbe(kind, i, o) ==
  IF o = "status_200" THEN "workflow"
  ELSE IF i < max_retries(kind) - 1 THEN "probing"
  ELSE IF kind = "test_client" THEN "exited"
  ELSE IF o = "exception" THEN "exited"
  ELSE "workflow"

ClientStart(kind) ==
  /\ cli.pc = "idle"
  /\ cli' = [cli EXCEPT !.pc = "probing", !.kind = kind]
  /\ UNCHANGED <<message_queues, queues, hist, stale, run, sub, served>>

ClientProbe(o) ==
  /\ cli.pc = "probing"
  /\ cli' = [cli EXCEPT !.probes = Append(@, o),
                        !.pc = AfterProbe(cli.kind, Len(cli.probes), o)]
  /\ UNCHANGED <<message_queues, queues, hist, stale, run, sub, served>>

ClientNext ==
  \/ \E kind \in ClientKinds : ClientStart(kind)
  \/ \E o \in ProbeOutcomes : ClientProbe(o)

ClientSpec == Init /\ [][ClientNext]_vars

\* ------------------------------------------------------------ specifications
\* the steps of at most nr requests and ns subscribers in an environment
\* whose oracle, network, upstream services and composer answer from the
\* given sets
Steps(nr, ns, decisions, nets, ups, composers) ==
  \/ \E r \in 1..nr, sid \in Sessions, msg \in Messages : Chat(r, sid, msg)
  \/ \E r \in 1..nr : RouteCheckStatus(r)
  \/ \E r \in 1..nr : RoutePutStatus(r)
  \/ \E r \in 1..nr : RouteOracle(r, decisions)
  \/ \E r \in 1..nr : RouteCheckRouting(r)
  \/ \E r \in 1..nr : RoutePutRouting(r)
  \/ \E r \in 1..nr : RouteCheckNote(r)
  \/ \E r \in 1..nr : RoutePutNote(r)
  \/ \E r \in 1..nr : RouteCallTool(r, nets, ups)
  \/ \E r \in 1..nr : RespondCheckStatus(r)
  \/ \E r \in 1..nr : RespondPutStatus(r)
  \/ \E r \in 1..nr : Respond(r, composers)
  \/ \E r \in 1..nr : PutFinal(r)
  \/ \E u \in 1..ns, sid \in Sessions : Stream(u, sid)
  \/ \E u \in 1..ns : StreamCreate(u)
  \/ \E u \in 1..ns : StreamRead(u)
  \/ \E u \in 1..ns : StreamGet(u)
  \/ \E u \in 1..ns : StreamYield(u)
  \/ \E u \in 1..ns : StreamKeepalive(u)
  \/ \E u \in 1..ns : StreamDisconnect(u)
  \/ \E u \in 1..ns : StreamCleanupCheck(u)
  \/ \E u \in 1..ns : StreamCleanupDel(u)

\* concurrent requests and subscribers, reduced environment
Next == Steps(MaxRuns, MaxSubs, SomeDecisions, SomeNets, SomeUpstreams, SomeComposers)

Spec == Init /\ [][Next]_vars

\* one request and one subscriber, every environment
SoloNext == Steps(1, 1, Decisions, Nets, Upstreams, Composers)

SoloSpec == Init /\ [][SoloNext]_vars

\* one request and two subscribers, reduced environment
DuoNext == Steps(1, 2, SomeDecisions, SomeNets, SomeUpstreams, SomeComposers)

DuoSpec == Init /\ [][DuoNext]_vars

\* ==================================================================== claims
Runs == DOMAIN run
Subs == DOMAIN sub

\* the events of one pipeline run, as named in the claims
Analyzing(r) == Event("status", "analyzing", r)
Routing(r) == Event("routing", run[r].tool, r)
Note(r) == Event("status", ToolNote(run[r].tool), r)
Crafting(r) == Event("status", "crafting", r)
Final(r) == Event("final", run[r].result, r)

\* ------------------------------------------------------------------------ C3
\* C3 as stated: when the oracle returns tool "none", the run calls no tool
\* and puts no routing event: a finished run has put exactly
\* status(analyzing), status(crafting), final.
C3_NoRoutingEvent ==
  \A r \in Runs :
    run[r].tool = "none" =>
      /\ run[r].tool_calls = 0
      /\ \A i \in DOMAIN run[r].pushed : run[r].pushed[i].type /= "routing"
      /\ run[r].pc = "done" =>
           run[r].pushed = <<Analyzing(r), Crafting(r), Final(r)>>

\* C3 amended: when the oracle returns tool "none", the run calls no tool,
\* and a finished run has put exactly status(analyzing), routing(none),
\* status(crafting), final, in that order.
C3_NoneDecision ==
  \A r \in Runs :
    run[r].tool = "none" =>
      /\ run[r].tool_calls = 0
      /\ run[r].pc = "done" =>
           run[r].pushed = <<Analyzing(r), Routing(r), Crafting(r), Final(r)>>

C3_Witness ==
  \E r \in Runs, u \in Subs :
    /\ run[r].tool = "none" /\ run[r].pc = "done"
    /\ sub[u].relayed = <<Analyzing(r), Routing(r), Crafting(r), Final(r)>>

\* ----------------------------------------------------------------------- C10
\* C10: when the tool result handed to generate_response has success false,
\* the result is the apology carrying the tool result's error, the response
\* composer is not called, and the final event the run puts carries that
\* string.
C10_FailedToolResult ==
  \A r \in Runs :
    (Failed(run[r].tool_result) /\ run[r].pc \in {"final_put", "done", "crashed"}) =>
      /\ run[r].result = "I encountered an error: " \o run[r].tool_result.error
      /\ run[r].composer_calls = 0
      /\ \A i \in DOMAIN run[r].pushed :
           run[r].pushed[i].type = "final" =>
             run[r].pushed[i].info =
               "I encountered an error: " \o run[r].tool_result.error

C10_Witness ==
  \E r \in Runs :
    /\ run[r].tool_result = [success |-> FALSE, error |-> "HTTP 500"]
    /\ run[r].pc = "done"
    /\ run[r].pushed[Len(run[r].pushed)] =
         Event("final", "I encountered an error: HTTP 500", r)

\* ------------------------------------------------------------------------ C1
Finals(events) == {i \in DOMAIN events : events[i].type = "final"}

Ended(r) == run[r].pc \in {"done", "crashed"}

\* C1: every POST /chat with a non-empty message has its run put exactly one
\* final event, whatever other requests for the same or another session id
\* run beside it: a run whose thread has ended has put exactly one final.
C1_FinalPushed ==
  \A r \in Runs :
    (run[r].msg /= "" /\ Ended(r)) => Cardinality(Finals(run[r].pushed)) = 1

\* ------------------------------------------------------------------------ C2
\* the subscriber holds a queue and its client is connected
Listening(u) ==
  sub[u].pc \in {"stream_get", "stream_yield", "cleanup_check", "cleanup_del", "ended"}

Held(u) == IF sub[u].pc = "stream_yield" THEN <<sub[u].message>> ELSE <<>>

\* C2: whether the subscriber opened the stream before or after the POST
\* /chat for its session id, every event the run has put is relayed to it in
\* the order put: the frames written, the frame being written and the events
\* waiting in the subscriber's queue are together the run's events. (One
\* request and one subscriber.)
C2_RelaysEveryEvent ==
  \A u \in Subs, r \in Runs :
    (Listening(u) /\ run[r].pc /= "idle" /\ run[r].sid = sub[u].sid) =>
      sub[u].relayed \o Held(u) \o queues[sub[u].q] = run[r].pushed

\* ------------------------------------------------------------------------ C4
\* C4: a POST /chat for a session id with a registered queue keeps that queue
\* object registered, with the events waiting in it; it registers a new
\* queue only when none is registered.
C4_ChatReusesQueue ==
  [][\A r \in Runs :
       (run[r].pc = "idle" /\ run'[r].pc = "route_status_check"
          /\ Registered(run'[r].sid)) =>
         message_queues'[run'[r].sid] = message_queues[run'[r].sid]]_vars

\* ------------------------------------------------------------------------ C5
PutPcs == {"route_status_put", "route_routing_put", "route_note_put",
           "respond_status_put", "final_put"}

\* C5: a put for a session id that has no registered queue is a silent
\* no-op, also when the entry is deleted between the membership test and
\* the subscript: nothing is raised and the run goes on as it would have
\* after the put (it does not crash and does not leave route_request early).
C5_SilentNoOp ==
  [][\A r \in Runs :
       (run[r].pc \in PutPcs /\ ~Registered(run[r].sid) /\ run'[r] /= run[r]) =>
         /\ run'[r].pc /= "crashed"
         /\ run[r].pc = "route_status_put" => run'[r].pc = "route_oracle"
         /\ run[r].pc = "route_routing_put" =>
              run'[r].pc = AfterRouting(run[r].tool, run[r].params)
         /\ run[r].pc = "route_note_put" => run'[r].pc = "route_call_tool"
         /\ run[r].pc = "respond_status_put" => run'[r].pc = "respond"
         /\ run[r].pc = "final_put" => run'[r].pc = "done"]_vars

\* ------------------------------------------------------------------------ C6
\* C6 as stated: the history of a queue holds at most one final event, for
\* any sequence of requests, two for one session id included.
C6_OneFinalPerQueue ==
  \A q \in DOMAIN hist : Cardinality(Finals(hist[q])) <= 1

\* C6 amended: the history of a queue holds at most one final event of each
\* run, and a subscriber is relayed nothing after it has been relayed a
\* final event.
C6_OneFinalPerRun ==
  /\ \A q \in DOMAIN hist, r \in Runs :
       Cardinality({i \in Finals(hist[q]) : hist[q][i].run = r}) <= 1
  /\ \A u \in Subs : Finals(sub[u].relayed) \subseteq {Len(sub[u].relayed)}

C6_Witness ==
  \E q \in DOMAIN hist, u \in Subs :
    /\ Cardinality(Finals(hist[q])) = 2
    /\ sub[u].q = q
    /\ sub[u].pc = "ended"
    /\ Finals(sub[u].relayed) = {Len(sub[u].relayed)}

\* ------------------------------------------------------------------------ C7
\* C7: when a stream ends after relaying a final event, its session id has
\* no entry in the registry; a subscription for that id that starts later
\* reads a queue that is none of the session's events put before the
\* delete: it is never relayed, handed or left waiting any of them.
C7_NoReplay ==
  /\ [][\A u \in Subs :
          (sub[u].pc /= "ended" /\ sub'[u].pc = "ended") =>
            message_queues'[sub[u].sid] = NoQueue]_vars
  /\ [](\A u \in Subs :
          Listening(u) =>
            \A e \in sub[u].seen_stale :
              /\ \A i \in DOMAIN sub[u].relayed : sub[u].relayed[i] /= e
              /\ \A i \in DOMAIN Held(u) : Held(u)[i] /= e
              /\ \A i \in DOMAIN queues[sub[u].q] : queues[sub[u].q][i] /= e)

C7_Witness ==
  \E u \in Subs, v \in Subs :
    /\ sub[u].pc = "ended"
    /\ sub[v].sid = sub[u].sid
    /\ sub[v].pc = "stream_get"
    /\ sub[v].q /= sub[u].q
    /\ sub[v].seen_stale /= {}
    /\ queues[sub[v].q] = <<>>

\* ------------------------------------------------------------------------ C8
IsPrefix(a, b) == Len(a) <= Len(b) /\ a = SubSeq(b, 1, Len(a))

\* C8: for a queue read by one subscriber, the events relayed to that
\* subscriber are a prefix of the events put into the queue: the same order,
\* none twice, none skipped.
C8_RelayedPrefix ==
  \A u \in Subs :
    (sub[u].q /= NoQueue /\ Cardinality({v \in Subs : sub[v].q = sub[u].q}) = 1) =>
      IsPrefix(sub[u].relayed, hist[sub[u].q])

C8_Witness ==
  \E u \in Subs :
    /\ Cardinality({v \in Subs : sub[v].q = sub[u].q}) = 1
    /\ Len(sub[u].relayed) >= 3
    /\ Len(hist[sub[u].q]) > Len(sub[u].relayed)

\* ------------------------------------------------------------------------ C9
\* C9: a POST /chat whose message is empty is rejected before any queue is
\* created: the registry and the queues are unchanged by it, no thread is
\* started, and nothing is ever put or called for it.
C9_EmptyRejected ==
  /\ [][\A r \in Runs :
          (run[r].pc = "idle" /\ run'[r].pc /= "idle" /\ run'[r].msg = "") =>
            UNCHANGED <<message_queues, queues, hist>>]_vars
  /\ [](\A r \in Runs :
          (run[r].pc /= "idle" /\ run[r].msg = "") =>
            /\ run[r].pc = "rejected"
            /\ run[r].pushed = <<>>
            /\ run[r].oracle_calls = 0 /\ run[r].tool_calls = 0
            /\ run[r].composer_calls = 0)

C9_Witness ==
  \E r \in Runs, u \in Subs :
    /\ run[r].pc = "rejected" /\ run[r].msg = ""
    /\ sub[u].sid = run[r].sid
    /\ sub[u].pc = "stream_get" /\ sub[u].keepalives > 0
    /\ sub[u].relayed = <<>>

\* ----------------------------------------------------------------------- C11
\* route_request has returned: the thread is in generate_response or after it
Decided(r) ==
  run[r].pc \in {"respond_status_check", "respond_status_put", "respond",
                 "final_put", "done"}

\* C11 as stated: when the oracle names get_weather or web_search and the
\* parameters lack the parameter the tool requires (null, an empty mapping,
\* or a mapping without the key), the run behaves as with no tool: it never
\* calls the adapter and route_request returns tool_result None.
C11_OmittedParameterIsNoTool ==
  \A r \in Runs :
    (run[r].tool \in {"get_weather", "web_search"} /\ ~HasRequired(run[r].params)) =>
      /\ run[r].tool_calls = 0
      /\ Decided(r) => run[r].tool_result = None

\* ----------------------------------------------------------------------- C12
\* C12: when the get of a subscriber times out on an empty queue, a keepalive
\* frame is written and the generator stays at its get: the registry, the
\* queues and the frames relayed so far are unchanged by that step; and
\* nothing is lost around it: what a sole reader has relayed, what it is
\* writing and what waits in its queue are together the events put into that
\* queue, so events put after the keepalive are relayed in their turn.
C12_KeepaliveContinues ==
  /\ [][\A u \in Subs :
          sub'[u].keepalives > sub[u].keepalives =>
            /\ queues[sub[u].q] = <<>>
            /\ sub'[u].pc = "stream_get"
            /\ sub'[u].q = sub[u].q
            /\ sub'[u].relayed = sub[u].relayed
            /\ UNCHANGED <<message_queues, queues, hist>>]_vars
  /\ [](\A u \in Subs :
          (sub[u].keepalives > 0 /\ sub[u].pc /= "closed"
             /\ Cardinality({v \in Subs : sub[v].q = sub[u].q}) = 1) =>
            /\ Listening(u)
            /\ sub[u].relayed \o Held(u) \o queues[sub[u].q] = hist[sub[u].q])

\* a keepalive was written and the run's events, put after it, were relayed
\* up to the final
C12_Witness ==
  \E u \in Subs, r \in Runs :
    /\ sub[u].keepalives > 0
    /\ run[r].pc = "done"
    /\ sub[u].relayed = run[r].pushed
    /\ sub[u].pc = "ended"

\* ----------------------------------------------------------------------- C13
\* C13: call_mcp_tool always returns to route_request: whatever the network
\* did with the request, the run goes on to generate_response with a tool
\* result that has a success field; when requests.post raised (transport
\* failure, timeout), the status is not 200 or the body cannot be parsed, the
\* result has success false and an error and is not the reply's body; only a
\* parsable 200 reply makes the result the server's own body.
C13_AdapterNeverRaises ==
  \A r \in Runs :
    run[r].tool_calls > 0 =>
      LET reply == HttpReply(run[r].net, run[r].tool, run[r].params, run[r].up)
          res == run[r].tool_result
      IN  /\ Decided(r)
          /\ "success" \in DOMAIN res
          /\ IF run[r].net /= "net_exc" /\ reply.status = 200 /\ reply.body /= NotJson
             THEN res = reply.body
             ELSE /\ res.success = FALSE
                  /\ "error" \in DOMAIN res
                  /\ res.error \in {"Request failed", "HTTP 400", "HTTP 404", "HTTP 500"}
                  /\ res /= reply.body

\* a 200 reply with an unparsable body became a failed tool result, and the
\* run finished with the apology
C13_Witness ==
  \E r \in Runs :
    /\ run[r].tool_calls = 1 /\ run[r].net = "net_badbody"
    /\ run[r].tool_result = [success |-> FALSE, error |-> "Request failed"]
    /\ run[r].pc = "done"

\* ----------------------------------------------------------------------- C14
\* the oracle call or the parse of its reply raised
OracleFailed(r) == run[r].oracle_calls = 1 /\ run[r].tool = "unset"

\* C14: when the oracle call fails, route_request returns tool_result None
\* without raising and without a tool call; the run goes on to
\* generate_response on the direct path (the composer is called once, with
\* no tool data) and its thread ends having put its final event.
C14_OracleFailureDegrades ==
  \A r \in Runs :
    OracleFailed(r) =>
      /\ run[r].tool_result = None
      /\ run[r].tool_calls = 0
      /\ run[r].pc \in {"final_put", "done"} =>
           /\ run[r].composer_calls = 1
           /\ run[r].result \in {"direct answer", "Error generating response: composer"}
      /\ Ended(r) => Cardinality(Finals(run[r].pushed)) = 1

\* ----------------------------------------------------------------------- C15
\* the thread is inside generate_response
Composing(r) == run[r].pc \in {"respond_status_check", "respond_status_put", "respond"}

\* C15: generate_response never lets an exception reach its caller, whatever
\* the tool result, the composer's outcome and the concurrent changes of the
\* registry: every step of the stage leaves the thread alive, and the stage
\* returns with a result that is a non-empty string.
C15_ComposeNeverRaises ==
  [][\A r \in Runs :
       (Composing(r) /\ run'[r] /= run[r]) =>
         /\ run'[r].pc /= "crashed"
         /\ run'[r].pc = "final_put" => run'[r].result /= ""]_vars

\* ----------------------------------------------------------------------- C16
\* C16: when a subscriber's connection closes before a final was relayed to
\* it, the run still completes and puts its final into the queue, the queue
\* stays registered, and a subscriber arriving later for the same session id
\* is relayed the final: at its arrival, with the run done, the queue the
\* first subscriber read is the registered one and the run's final waits in
\* it.
C16_FinalSurvivesDisconnect ==
  [][\A u \in Subs, v \in Subs, r \in Runs :
       (/\ sub[u].pc = "closed" /\ Finals(sub[u].relayed) = {}
        /\ sub[v].pc = "idle" /\ sub'[v].pc /= "idle" /\ sub'[v].sid = sub[u].sid
        /\ run[r].pc = "done" /\ run[r].sid = sub[u].sid
        /\ hist[sub[u].q] = run[r].pushed) =>
         /\ message_queues[sub[u].sid] = sub[u].q
         /\ \E i \in DOMAIN queues[sub[u].q] : queues[sub[u].q][i] = Final(r)]_vars

\* ----------------------------------------------------------------------- C17
\* the generator holds a reference to a queue object it reads
Holds(u) == sub[u].pc \in {"stream_get", "stream_yield"}

\* C17: opening the queue of a session id is idempotent under concurrent
\* callers: two subscribers that opened the same session id, with no POST
\* /chat for it, read the same queue object.
C17_OneQueuePerKey ==
  \A u \in Subs, v \in Subs :
    (/\ Holds(u) /\ Holds(v) /\ sub[u].sid = sub[v].sid
     /\ \A r \in Runs : run[r].pc = "idle" \/ run[r].sid /= sub[u].sid) =>
      sub[u].q = sub[v].q

\* ----------------------------------------------------------------------- C18
\* C18: POST /chat with a non-empty message returns {status: processing}
\* without waiting for the run: the step that accepts the request registers
\* the queue, starts the thread and returns the acknowledgement while the
\* thread has put nothing yet, and the acknowledgement stands whatever the
\* run does afterwards.
C18_AckWithoutWaiting ==
  /\ [][\A r \in Runs :
          (run[r].pc = "idle" /\ run'[r].pc /= "idle" /\ run'[r].msg /= "") =>
            /\ run'[r].response = "processing"
            /\ message_queues'[run'[r].sid] /= NoQueue
            /\ queues'[message_queues'[run'[r].sid]] = <<>>
            /\ run'[r].pc = "route_status_check"
            /\ run'[r].pushed = <<>>]_vars
  /\ [](\A r \in Runs :
          (run[r].pc /= "idle" /\ run[r].msg /= "") => run[r].response = "processing")

\* the acknowledgement has been returned and the thread has not put anything
C18_Witness ==
  \E r \in Runs :
    /\ run[r].response = "processing"
    /\ run[r].pc = "route_status_check"
    /\ run[r].pushed = <<>>
    /\ queues[message_queues[run[r].sid]] = <<>>

\* ----------------------------------------------------------------------- C19
\* C19 as stated: when the oracle selects a tool with valid parameters, the
\* run has put status(analyzing), the tool's status note and the routing
\* event, in that order, by the time it calls the adapter.
C19_NoteThenRouting ==
  \A r \in Runs :
    (run[r].tool_calls > 0 /\ HasRequired(run[r].params)) =>
      /\ Len(run[r].pushed) >= 3
      /\ SubSeq(run[r].pushed, 1, 3) = <<Analyzing(r), Note(r), Routing(r)>>

\* the sequences obtained from <<a, b, c>> by leaving events out
Subsequences(a, b, c) ==
  {<<>>, <<a>>, <<b>>, <<c>>, <<a, b>>, <<a, c>>, <<b, c>>, <<a, b, c>>}

\* no stream can have deleted the key of r's session id: no other run of
\* that id has put a final
NoOtherFinal(r) ==
  \A o \in Runs \ {r} :
    (run[o].pc /= "idle" /\ run[o].sid = run[r].sid) => Finals(run[o].pushed) = {}

\* C19 amended: when the oracle selects a tool with valid parameters, the
\* run puts status(analyzing), then the routing event, then the tool's status
\* note, and calls the adapter only after these three: at the call the run
\* has put exactly these, in this order (when the key was deleted under the
\* run, which takes the final of another run of the id, the puts that found
\* no key are missing and the order of the others is the same).
C19_RoutingThenNote ==
  [][\A r \in Runs :
       (run'[r].tool_calls > run[r].tool_calls /\ HasRequired(run[r].params)) =>
         /\ run[r].pushed \in Subsequences(Analyzing(r), Routing(r), Note(r))
         /\ NoOtherFinal(r) =>
              run[r].pushed = <<Analyzing(r), Routing(r), Note(r)>>]_vars

C19_Witness ==
  \E r \in Runs, u \in Subs :
    /\ run[r].tool = "web_search" /\ HasRequired(run[r].params)
    /\ run[r].tool_calls = 1 /\ run[r].pc = "done"
    /\ sub[u].relayed =
         <<Analyzing(r), Routing(r), Note(r), Crafting(r), Final(r)>>

\* ----------------------------------------------------------------------- C20
\* the states of a pipeline run, numbered in their order: START,
\* DECIDING, the outcome of decide (TOOL_INVOKED or NO_TOOL), COMPOSING, DONE;
\* a thread ended by an exception is in none of them
Phase(pc) ==
  CASE pc = "route_status_check" -> 1
    [] pc \in {"route_status_put", "route_oracle", "route_routing_check",
               "route_routing_put", "route_note_check", "route_note_put",
               "route_call_tool"} -> 2
    [] pc = "respond_status_check" -> 3
    [] pc \in {"respond_status_put", "respond", "final_put"} -> 4
    [] pc = "done" -> 5
    [] OTHER -> 0

\* C20: every run goes START, DECIDING, TOOL_INVOKED or NO_TOOL, COMPOSING,
\* DONE in this order and makes no other transition: each step of its thread
\* stays in its state or enters the next one; the composer is called only
\* after route_request has returned, the final is put only after
\* generate_response has returned a result, and the oracle, the adapter and
\* the composer are each called at most once.
C20_RunStateMachine ==
  /\ [][\A r \in Runs :
          (Phase(run[r].pc) > 0 /\ run'[r].pc /= run[r].pc) =>
            Phase(run'[r].pc) \in {Phase(run[r].pc), Phase(run[r].pc) + 1}]_vars
  /\ [](\A r \in Runs :
          /\ run[r].oracle_calls <= 1 /\ run[r].tool_calls <= 1
          /\ run[r].composer_calls <= 1
          /\ run[r].composer_calls > 0 => Phase(run[r].pc) >= 4
          /\ Phase(run[r].pc) >= 3 => run[r].oracle_calls = 1
          /\ Finals(run[r].pushed) /= {} =>
               (run[r].pc = "done" /\ run[r].result /= ""))

\* ----------------------------------------------------------------------- C21
\* C21: the registry entry of a session id with a registered queue changes
\* only by the delete of a subscriber of that id that has just relayed a
\* final taken from that very queue; no POST /chat and no stage of a run
\* removes or replaces a registered queue.
C21_OnlyStreamRemoves ==
  [][\A s \in Sessions :
       (message_queues[s] /= NoQueue /\ message_queues'[s] /= message_queues[s]) =>
         /\ message_queues'[s] = NoQueue
         /\ \E u \in Subs :
              /\ sub[u].pc = "cleanup_del" /\ sub'[u].pc = "ended"
              /\ sub[u].sid = s
              /\ sub[u].q = message_queues[s]
              /\ sub[u].relayed /= <<>>
              /\ sub[u].relayed[Len(sub[u].relayed)].type = "final"]_vars

\* ----------------------------------------------------------------------- C22
\* the step is taken by a request or a subscriber of a session id other than s
StepOfOther(s) ==
  /\ \A r \in Runs : run'[r] /= run[r] => run'[r].sid /= s
  /\ \A u \in Subs : sub'[u] /= sub[u] => sub'[u].sid /= s

\* C22: sessions are isolated: an event a run puts goes to the end of the
\* queue registered under the run's own session id and changes no other
\* queue; and a step of a request or a subscriber of another session id
\* changes neither the registry entry of a session id nor the content or the
\* history of the queue registered under it.
C22_SessionsIsolated ==
  /\ [][\A q \in DOMAIN hist :
          hist'[q] /= hist[q] =>
            \E r \in Runs :
              /\ run'[r].pushed /= run[r].pushed
              /\ message_queues[run[r].sid] = q
              /\ hist'[q] = Append(hist[q], run'[r].pushed[Len(run'[r].pushed)])
              /\ queues'[q] = Append(queues[q], run'[r].pushed[Len(run'[r].pushed)])
              /\ \A o \in DOMAIN hist \ {q} : hist'[o] = hist[o] /\ queues'[o] = queues[o]]_vars
  /\ [][\A s \in Sessions :
          StepOfOther(s) =>
            /\ message_queues'[s] = message_queues[s]
            /\ Registered(s) =>
                 /\ queues'[message_queues[s]] = queues[message_queues[s]]
                 /\ hist'[message_queues[s]] = hist[message_queues[s]]]_vars

\* two runs of two session ids have finished, each with its events and only
\* its events in its own queue, one of them relayed and its entry deleted
C22_Witness ==
  \E a \in Runs, b \in Runs, u \in Subs :
    /\ run[a].pc = "done" /\ run[b].pc = "done" /\ run[a].sid /= run[b].sid
    /\ sub[u].sid = run[a].sid /\ sub[u].pc = "ended"
    /\ sub[u].relayed = run[a].pushed
    /\ ~Registered(run[a].sid)
    /\ Registered(run[b].sid)
    /\ queues[message_queues[run[b].sid]] = run[b].pushed
    /\ Len(run[b].pushed) >= 3

\* ----------------------------------------------------------------------- C23
\* a tool result with its fields as the claim has them: success false with
\* an error string and no data, or success true with data
WellFormed(t) ==
  /\ "success" \in DOMAIN t
  /\ IF t.success
     THEN "data" \in DOMAIN t
     ELSE "error" \in DOMAIN t /\ t.error /= "" /\ "data" \notin DOMAIN t

C24_StartsOnlyAfter200 ==
  /\ cli.pc = "workflow" =>
       \E i \in DOMAIN cli.probes : cli.probes[i] = "status_200"
  /\ (/\ cli.kind \in ClientKinds
      /\ Len(cli.probes) = max_retries(cli.kind)
      /\ \A i \in DOMAIN cli.probes : cli.probes[i] /= "status_200") =>
       cli.pc = "exited"

====
